---- MODULE Spec2Model ----
(***************************************************************************)
(* StockTracking: the /stock/<symbol> handler of src/app/app.py as a state *)
(* machine.  A request runs get_stock up to the blocking upstream GET      *)
(* (StartRequest) and, once the GET has returned or raised, through the    *)
(* classification, extraction and the except clauses (ReceiveUpstream).    *)
(*                                                                         *)
(* Text is a sequence of one-character strings, so that upper(), strip(),  *)
(* lower(), the regular expression, max() over keys, strptime() and        *)
(* float()/int() are computed character by character.  The character       *)
(* U+00DF (sharp s, whose upper() is "SS") is written "sz".                *)
(***************************************************************************)
EXTENDS Integers, Sequences, FiniteSets, TLC

VARIABLES reqs, env_key, raw, upstream, pc, symbol, sent, replies

vars == <<reqs, env_key, raw, upstream, pc, symbol, sent, replies>>

(***************************************************************************)
(* Text helpers (str methods of the Python runtime)                        *)
(***************************************************************************)
LowerLetters == <<"a","b","c","d","e","f","g","h","i","j","k","l","m",
                  "n","o","p","q","r","s","t","u","v","w","x","y","z">>

UpperLetters == <<"A","B","C","D","E","F","G","H","I","J","K","L","M",
                  "N","O","P","Q","R","S","T","U","V","W","X","Y","Z">>

Digits == <<"0","1","2","3","4","5","6","7","8","9">>

Range(s) == {s[i] : i \in DOMAIN s}

IndexIn(c, tbl) == CHOOSE i \in DOMAIN tbl : tbl[i] = c

\* str.upper() of one character: a sequence, since U+00DF becomes "SS"
UpperChar(c) ==
  IF c = "sz" THEN <<"S", "S">>
  ELSE IF c \in Range(LowerLetters) THEN <<UpperLetters[IndexIn(c, LowerLetters)]>>
  ELSE <<c>>

\* str.lower() of one character
LowerChar(c) ==
  IF c \in Range(UpperLetters) THEN LowerLetters[IndexIn(c, UpperLetters)] ELSE c

RECURSIVE StrUpper(_)
StrUpper(s) == IF s = <<>> THEN <<>> ELSE UpperChar(Head(s)) \o StrUpper(Tail(s))

StrLower(s) == [i \in DOMAIN s |-> LowerChar(s[i])]

\* str.isspace() of one character
IsSpace(c) == c \in {" ", "\t", "\n", "\r"}

RECURSIVE LStrip(_)
LStrip(s) == IF s # <<>> /\ IsSpace(Head(s)) THEN LStrip(Tail(s)) ELSE s

RECURSIVE RStrip(_)
RStrip(s) ==
  IF s # <<>> /\ IsSpace(s[Len(s)]) THEN RStrip(SubSeq(s, 1, Len(s) - 1)) ELSE s

\* str.strip()
StrStrip(s) == RStrip(LStrip(s))

\* needle in hay (substring test)
Contains(needle, hay) ==
  \E i \in 0..(Len(hay) - Len(needle)) :
    SubSeq(hay, i + 1, i + Len(needle)) = needle

\* s < t in Python's string order (code points, shorter prefix first)
CodePoints == <<"\n", " ", "-", ".", "0","1","2","3","4","5","6","7","8","9", ":",
                "A","B","C","D","E","F","G","H","I","J","K","L","M",
                "N","O","P","Q","R","S","T","U","V","W","X","Y","Z",
                "a","b","c","d","e","f","g","h","i","j","k","l","m",
                "n","o","p","q","r","s","t","u","v","w","x","y","z", "sz">>

Ord(c) == IndexIn(c, CodePoints)

RECURSIVE StrLess(_, _)
StrLess(s, t) ==
  IF t = <<>> THEN FALSE
  ELSE IF s = <<>> THEN TRUE
  ELSE IF Head(s) = Head(t) THEN StrLess(Tail(s), Tail(t))
  ELSE Ord(Head(s)) < Ord(Head(t))

(***************************************************************************)
(* Symbol validation (get_stock, lines 62-75)                              *)
(***************************************************************************)
MinSymbolLen == 1
MaxSymbolLen == 5

\* re.match(r'^[A-Z]{1,5}$', s): "$" also matches just before a final newline
MatchSymbol(s) ==
  LET n == Len(s)
      core == IF n > 0 /\ s[n] = "\n" THEN SubSeq(s, 1, n - 1) ELSE s
  IN  /\ Len(core) >= MinSymbolLen
      /\ Len(core) <= MaxSymbolLen
      /\ \A i \in DOMAIN core : core[i] \in Range(UpperLetters)

\* symbol = symbol.upper(), the strip() left out
UpperOnly(s) == StrUpper(s)

\* symbol = symbol.upper().strip()
NormalizeSymbol(s) == StrStrip(StrUpper(s))

(***************************************************************************)
(* JSON values and Python results                                          *)
(***************************************************************************)
JStr(s)  == [t |-> "str",  v |-> s]      \* a JSON string, as text
JLit(s)  == [t |-> "lit",  v |-> s]      \* a fixed string of the program
JFmt(p)  == [t |-> "fmt",  v |-> p]      \* an f-string: its pieces in order
JNum(n)  == [t |-> "num",  v |-> n]      \* a number, in hundredths
JObj(f)  == [t |-> "obj",  v |-> f]      \* a JSON object: key -> value
JList(q) == [t |-> "list", v |-> q]
JNull    == [t |-> "null", v |-> <<>>]

IsStr(j) == j.t = "str"
IsObj(j) == j.t = "obj"

\* the empty mapping
EmptyMap == [k \in {} |-> JNull]

Ok(v)    == [ok |-> TRUE,  v |-> v]
Raise(e) == [ok |-> FALSE, exc |-> e]

\* container.get(key) in place of container[key]: None for a missing key
GetItemOrNone(j, key) ==
  IF ~IsObj(j) THEN Raise("TypeError")
  ELSE IF key \notin DOMAIN j.v THEN Ok(JNull)
  ELSE Ok(j.v[key])

\* container[key] on a JSON value: KeyError / TypeError as Python raises them
GetItem(j, key) ==
  IF ~IsObj(j) THEN Raise("TypeError")
  ELSE IF key \notin DOMAIN j.v THEN Raise("KeyError")
  ELSE Ok(j.v[key])

(***************************************************************************)
(* Numbers: float() and int() of a JSON value, exact decimal arithmetic    *)
(***************************************************************************)
IsDigit(c) == c \in Range(Digits)

DigitVal(c) == IndexIn(c, Digits) - 1

RECURSIVE DigitsVal(_)
DigitsVal(s) ==
  IF s = <<>> THEN 0 ELSE 10 * DigitsVal(SubSeq(s, 1, Len(s) - 1)) + DigitVal(s[Len(s)])

RECURSIVE Pow10(_)
Pow10(k) == IF k = 0 THEN 1 ELSE 10 * Pow10(k - 1)

AllDigits(s) == \A i \in DOMAIN s : IsDigit(s[i])

\* position of the first "." of s, or 0
DotAt(s) == IF "." \in Range(s) THEN CHOOSE i \in DOMAIN s : s[i] = "." /\ \A j \in 1..(i - 1) : s[j] # "." ELSE 0

\* float(text) for a plain decimal literal: [num, den] or ValueError.
\* (Exponents, "inf", "nan" and digit-group underscores are not drawn as inputs.)
ParseDecimal(text) ==
  LET s    == StrStrip(text)
      neg  == s # <<>> /\ Head(s) = "-"
      body == IF s # <<>> /\ Head(s) \in {"-", "+"} THEN Tail(s) ELSE s
      dot  == DotAt(body)
      ip   == IF dot = 0 THEN body ELSE SubSeq(body, 1, dot - 1)
      fp   == IF dot = 0 THEN <<>> ELSE SubSeq(body, dot + 1, Len(body))
      mag  == DigitsVal(ip) * Pow10(Len(fp)) + DigitsVal(fp)
  IN  IF AllDigits(ip) /\ AllDigits(fp) /\ Len(ip) + Len(fp) > 0
      THEN Ok([num |-> IF neg THEN 0 - mag ELSE mag, den |-> Pow10(Len(fp))])
      ELSE Raise("ValueError")

\* float(x)
PyFloat(j) ==
  IF IsStr(j) THEN ParseDecimal(j.v) ELSE Raise("TypeError")

\* int(x): an optionally signed run of digits
PyInt(j) ==
  IF ~IsStr(j) THEN Raise("TypeError")
  ELSE LET s    == StrStrip(j.v)
           neg  == s # <<>> /\ Head(s) = "-"
           body == IF s # <<>> /\ Head(s) \in {"-", "+"} THEN Tail(s) ELSE s
       IN  IF body # <<>> /\ AllDigits(body)
           THEN Ok(IF neg THEN 0 - DigitsVal(body) ELSE DigitsVal(body))
           ELSE Raise("ValueError")

\* floor(a / b) for b > 0 is a \div b in TLA+
\* round(a / b, 0) to the nearest integer, ties to even, b > 0
RoundDiv(a, b) ==
  LET q == a \div b
      r == a % b
  IN  IF 2 * r < b THEN q
      ELSE IF 2 * r > b THEN q + 1
      ELSE IF q % 2 = 0 THEN q ELSE q + 1

\* round(a / b, 2) in hundredths, any sign of b
Round2(a, b) == IF b > 0 THEN RoundDiv(100 * a, b) ELSE RoundDiv(0 - 100 * a, 0 - b)

(***************************************************************************)
(* Calendar: datetime.strptime, pytz localize / astimezone, strftime       *)
(***************************************************************************)
IsLeap(y) == (y % 4 = 0 /\ y % 100 # 0) \/ y % 400 = 0

DaysInMonth(y, m) ==
  IF m = 2 THEN (IF IsLeap(y) THEN 29 ELSE 28)
  ELSE IF m \in {4, 6, 9, 11} THEN 30 ELSE 31

\* days since 1970-01-01 of the civil date y-m-d (proleptic Gregorian)
DaysFromCivil(y, m, d) ==
  LET yy  == IF m <= 2 THEN y - 1 ELSE y
      era == yy \div 400
      yoe == yy - era * 400
      mp  == IF m > 2 THEN m - 3 ELSE m + 9
      doy == (153 * mp + 2) \div 5 + d - 1
      doe == yoe * 365 + yoe \div 4 - yoe \div 100 + doy
  IN  era * 146097 + doe - 719468

\* the civil date of a day number
CivilFromDays(z0) ==
  LET z   == z0 + 719468
      era == z \div 146097
      doe == z - era * 146097
      yoe == (doe - doe \div 1460 + doe \div 36524 - doe \div 146096) \div 365
      doy == doe - (365 * yoe + yoe \div 4 - yoe \div 100)
      mp  == (5 * doy + 2) \div 153
      d   == doy - (153 * mp + 2) \div 5 + 1
      m   == IF mp < 10 THEN mp + 3 ELSE mp - 9
      y   == yoe + era * 400 + (IF m <= 2 THEN 1 ELSE 0)
  IN  [year |-> y, month |-> m, day |-> d]

\* datetime.weekday(): Monday = 0 ... Sunday = 6
WeekdayOfDays(days) == (days + 3) % 7

\* the longest run of at most k digits at the front of s
RECURSIVE DigitPrefixLen(_, _)
DigitPrefixLen(s, k) ==
  IF k = 0 \/ s = <<>> \/ ~IsDigit(Head(s)) THEN 0
  ELSE 1 + DigitPrefixLen(Tail(s), k - 1)

\* one numeric directive of at most k digits: [ok, val, rest]
TakeField(s, k) ==
  LET n == DigitPrefixLen(s, k)
  IN  [ok |-> n > 0, val |-> DigitsVal(SubSeq(s, 1, n)), rest |-> SubSeq(s, n + 1, Len(s))]

\* a literal character of the format: [ok, rest]
TakeChar(s, c) ==
  [ok |-> s # <<>> /\ Head(s) = c, rest |-> IF s = <<>> THEN s ELSE Tail(s)]

\* datetime.strptime(text, '%Y-%m-%d %H:%M:%S'): the naive datetime, or ValueError.
\* %Y takes exactly four digits, the other directives one or two; the blank of
\* the format takes any run of whitespace.
StrpTime(text) ==
  LET fy == TakeField(text, 4)
      c1 == TakeChar(fy.rest, "-")
      fm == TakeField(c1.rest, 2)
      c2 == TakeChar(fm.rest, "-")
      fd == TakeField(c2.rest, 2)
      sp == LStrip(fd.rest)
      fH == TakeField(sp, 2)
      c3 == TakeChar(fH.rest, ":")
      fM == TakeField(c3.rest, 2)
      c4 == TakeChar(fM.rest, ":")
      fS == TakeField(c4.rest, 2)
      shape == /\ fy.ok /\ Len(text) - Len(fy.rest) = 4
               /\ c1.ok /\ fm.ok /\ c2.ok /\ fd.ok
               /\ Len(sp) < Len(fd.rest)
               /\ fH.ok /\ c3.ok /\ fM.ok /\ c4.ok /\ fS.ok
               /\ fS.rest = <<>>
  IN  IF /\ shape
         /\ fy.val >= 1
         /\ fm.val \in 1..12
         /\ fd.val \in 1..DaysInMonth(fy.val, fm.val)
         /\ fH.val \in 0..23 /\ fM.val \in 0..59 /\ fS.val \in 0..59
      THEN Ok([year |-> fy.val, month |-> fm.val, day |-> fd.val,
               hour |-> fH.val, minute |-> fM.val, second |-> fS.val])
      ELSE Raise("ValueError")

\* day number of the n-th Sunday (n >= 1) of month m of year y
NthSunday(y, m, n) ==
  LET first == DaysFromCivil(y, m, 1)
      toSun == (6 - WeekdayOfDays(first)) % 7
  IN  first + toSun + 7 * (n - 1)

\* US daylight time since 2007: second Sunday of March to first Sunday of
\* November (the only years drawn as inputs); minutes since the epoch at 00:00
DstStart(y) == NthSunday(y, 3, 2) * 1440
DstEnd(y)   == NthSunday(y, 11, 1) * 1440

\* a wall clock in minutes since the epoch, with the zone name, as a datetime
WallClock(pwall, second, tzname) ==
  [year    |-> CivilFromDays(pwall \div 1440).year,
   month   |-> CivilFromDays(pwall \div 1440).month,
   day     |-> CivilFromDays(pwall \div 1440).day,
   hour    |-> (pwall % 1440) \div 60, minute |-> pwall % 60, second |-> second,
   weekday |-> WeekdayOfDays(pwall \div 1440), tzname |-> tzname]

\* astimezone(pacific_tz) of an instant given in UTC minutes
UtcToPacific(utc, year, second) ==
  IF utc >= DstStart(year) + 600 /\ utc < DstEnd(year) + 540
  THEN WallClock(utc - 420, second, "PDT")
  ELSE WallClock(utc - 480, second, "PST")

\* eastern_tz.localize(wall): the instant in UTC minutes.  localize() takes
\* is_dst = False: a wall time skipped or repeated by the change of clocks is
\* read as standard time.
EasternToUtc(wall, year) ==
  IF wall >= DstStart(year) + 180 /\ wall < DstEnd(year) + 60 THEN wall + 240 ELSE wall + 300

\* eastern_tz.localize(dt) then .astimezone(pacific_tz): the Pacific wall clock
ToPacific(dt) ==
  UtcToPacific(
    EasternToUtc(DaysFromCivil(dt.year, dt.month, dt.day) * 1440 + dt.hour * 60 + dt.minute,
                 dt.year),
    dt.year, dt.second)

\* a number zero-padded to k digits, as text
RECURSIVE Pad(_, _)
Pad(n, k) == IF k = 0 THEN <<>> ELSE Pad(n \div 10, k - 1) \o <<Digits[(n % 10) + 1]>>

\* strftime('%Y-%m-%d %H:%M:%S %Z')
StrfTime(p) ==
  Pad(p.year, 4) \o <<"-">> \o Pad(p.month, 2) \o <<"-">> \o Pad(p.day, 2) \o <<" ">>
    \o Pad(p.hour, 2) \o <<":">> \o Pad(p.minute, 2) \o <<":">> \o Pad(p.second, 2)
    \o <<" ">> \o (IF p.tzname = "PDT" THEN <<"P","D","T">> ELSE <<"P","S","T">>)

(***************************************************************************)
(* get_market_status (lines 287-307)                                       *)
(***************************************************************************)
\* the same with the last hour excluded (hour < 13)
get_market_status_strict(pacific_time) ==
  IF pacific_time.weekday >= 5 THEN "closed"
  ELSE IF 6 <= pacific_time.hour /\ pacific_time.hour < 13 THEN "open"
  ELSE "closed"

get_market_status(pacific_time) ==
  IF pacific_time.weekday >= 5 THEN "closed"
  ELSE IF 6 <= pacific_time.hour /\ pacific_time.hour <= 13 THEN "open"
  ELSE "closed"

(***************************************************************************)
(* get_company_name (lines 247-285)                                        *)
(***************************************************************************)
company_names ==
  [s \in {<<"A","A","P","L">>, <<"T","S","L","A">>, <<"G","O","O","G","L">>,
           <<"M","S","F","T">>, <<"A","M","Z","N">>, <<"M","E","T","A">>,
           <<"N","V","D","A">>, <<"N","F","L","X">>, <<"S","P","Y">>, <<"Q","Q","Q">>,
           <<"I","W","M">>, <<"V","T","I">>, <<"V","O","O">>, <<"A","R","K","K">>,
           <<"B","T","C">>, <<"E","T","H">>, <<"C","O","I","N">>, <<"S","Q">>,
           <<"P","Y","P","L">>, <<"A","D","B","E">>, <<"C","R","M">>,
           <<"O","R","C","L">>, <<"I","B","M">>, <<"I","N","T","C">>, <<"A","M","D">>} |->
     CASE s = <<"A","A","P","L">> -> "Apple Inc."
       [] s = <<"T","S","L","A">> -> "Tesla, Inc."
       [] s = <<"G","O","O","G","L">> -> "Alphabet Inc."
       [] s = <<"M","S","F","T">> -> "Microsoft Corporation"
       [] s = <<"A","M","Z","N">> -> "Amazon.com, Inc."
       [] s = <<"M","E","T","A">> -> "Meta Platforms, Inc."
       [] s = <<"N","V","D","A">> -> "NVIDIA Corporation"
       [] s = <<"N","F","L","X">> -> "Netflix, Inc."
       [] s = <<"S","P","Y">> -> "SPDR S&P 500 ETF Trust"
       [] s = <<"Q","Q","Q">> -> "Invesco QQQ Trust"
       [] s = <<"I","W","M">> -> "iShares Russell 2000 ETF"
       [] s = <<"V","T","I">> -> "Vanguard Total Stock Market ETF"
       [] s = <<"V","O","O">> -> "Vanguard S&P 500 ETF"
       [] s = <<"A","R","K","K">> -> "ARK Innovation ETF"
       [] s = <<"B","T","C">> -> "Bitcoin"
       [] s = <<"E","T","H">> -> "Ethereum"
       [] s = <<"C","O","I","N">> -> "Coinbase Global, Inc."
       [] s = <<"S","Q">> -> "Block, Inc."
       [] s = <<"P","Y","P","L">> -> "PayPal Holdings, Inc."
       [] s = <<"A","D","B","E">> -> "Adobe Inc."
       [] s = <<"C","R","M">> -> "Salesforce, Inc."
       [] s = <<"O","R","C","L">> -> "Oracle Corporation"
       [] s = <<"I","B","M">> -> "International Business Machines Corporation"
       [] s = <<"I","N","T","C">> -> "Intel Corporation"
       [] s = <<"A","M","D">> -> "Advanced Micro Devices, Inc."]

\* company_names.get(symbol, symbol)
get_company_name(sym) ==
  IF sym \in DOMAIN company_names THEN JLit(company_names[sym]) ELSE JStr(sym)

(***************************************************************************)
(* process_stock_data (lines 186-245)                                      *)
(***************************************************************************)
\* max(time_series.keys()): the greatest key in string order
PyMaxMut(keys) == CHOOSE k \in keys : \A j \in keys \ {k} : StrLess(k, j)

PyMax(keys) == CHOOSE k \in keys : \A j \in keys \ {k} : StrLess(j, k)

\* float(latest_data[field]) / int(latest_data[field])
FloatOf(g) == IF g.ok THEN PyFloat(g.v) ELSE g

FloatField(obj, field) == FloatOf(GetItem(obj, field))

IntOf(g) == IF g.ok THEN PyInt(g.v) ELSE g

IntField(obj, field) == IntOf(GetItem(obj, field))

\* the first fault of a sequence of evaluations, in evaluation order
FirstFault(rs) ==
  LET bad == {i \in DOMAIN rs : ~rs[i].ok}
  IN  IF bad = {} THEN Ok(<<>>)
      ELSE rs[CHOOSE i \in bad : \A j \in bad : i <= j]

\* open_price > 0 (the guard of line 224), on the parsed open [num, den]
PercentGuard(open_price) == open_price.num > 0

\* lines 223-224 and 238-239: the two rounded metrics, in hundredths
PriceMetrics(open_price, close_price) ==
  LET den    == IF open_price.den >= close_price.den THEN open_price.den ELSE close_price.den
      o      == open_price.num * (den \div open_price.den)
      c      == close_price.num * (den \div close_price.den)
      change == c - o
  IN  [price_change         |-> Round2(change, den),
       price_change_percent |-> IF PercentGuard(open_price) THEN Round2(100 * change, o) ELSE 0]

ResultKeys == {"symbol", "company_name", "last_refreshed", "latest_time_eastern",
               "latest_time_pacific", "open", "high", "low", "close", "volume",
               "price_change", "price_change_percent", "market_status",
               "data_quality", "source"}

\* lines 227-243: the result dictionary, once every evaluation has succeeded;
\* got holds what the subscripts and conversions returned, in evaluation order
BuildResult(latest_time, latest_data, pacific, got, sym) ==
  [k \in ResultKeys |->
     CASE k = "symbol"               -> got[6].v
       [] k = "company_name"         -> get_company_name(sym)
       [] k = "last_refreshed"       -> got[7].v
       [] k = "latest_time_eastern"  -> JStr(latest_time)
       [] k = "latest_time_pacific"  -> JStr(StrfTime(pacific))
       [] k = "open"                 -> latest_data.v["1. open"]
       [] k = "high"                 -> latest_data.v["2. high"]
       [] k = "low"                  -> latest_data.v["3. low"]
       [] k = "close"                -> latest_data.v["4. close"]
       [] k = "volume"               -> latest_data.v["5. volume"]
       [] k = "price_change"         -> JNum(PriceMetrics(got[1].v, got[2].v).price_change)
       [] k = "price_change_percent" -> JNum(PriceMetrics(got[1].v, got[2].v).price_change_percent)
       [] k = "market_status"        -> JLit(get_market_status(pacific))
       [] k = "data_quality"         -> JLit("real_time")
       [] k = "source"               -> JLit("Alpha Vantage API")]

\* lines 216-243: the first fault of the evaluations, or the result
Metrics(latest_time, latest_data, pacific, got, sym) ==
  IF ~FirstFault(got).ok THEN FirstFault(got)
  ELSE Ok(BuildResult(latest_time, latest_data, pacific, got, sym))

\* lines 204-243 for the parsed timestamp dt; the evaluations of lines 217-221,
\* 228 and 230 in the order Python makes them
Converted(meta_data, latest_time, latest_data, dt, sym) ==
  IF ~dt.ok THEN dt
  ELSE Metrics(latest_time, latest_data, ToPacific(dt.v),
               <<FloatField(latest_data, "1. open"),
                 FloatField(latest_data, "4. close"),
                 FloatField(latest_data, "2. high"),
                 FloatField(latest_data, "3. low"),
                 IntField(latest_data, "5. volume"),
                 GetItem(meta_data, "2. Symbol"),
                 GetItem(meta_data, "3. Last Refreshed")>>,
               sym)

\* lines 202-243 for the selected key
Latest(meta_data, time_series, latest_time, sym) ==
  Converted(meta_data, latest_time, time_series.v[latest_time], StrpTime(latest_time), sym)

process_stock_data(data, sym) ==
  IF ~IsObj(data.v["Time Series (5min)"]) THEN Raise("AttributeError")
  ELSE IF DOMAIN data.v["Time Series (5min)"].v = {} THEN Raise("ValueError")
  ELSE Latest(data.v["Meta Data"], data.v["Time Series (5min)"],
              PyMax(DOMAIN data.v["Time Series (5min)"].v), sym)

(***************************************************************************)
(* get_stock (lines 42-184)                                                *)
(***************************************************************************)
\* jsonify(body), status
Response(status, body) == [status |-> status, body |-> body]

ErrorBody(code, message) == ("error" :> message) @@ ("code" :> code)

ErrorBodyWith(code, message, key, extra) == ErrorBody(code, message) @@ (key :> extra)

\* not api_key: os.getenv gave None or an empty string
KeyMissing(key) == ~key.set \/ key.v = <<>>

ApiKeyMissing ==
  Response(500, ErrorBody("API_KEY_MISSING",
                          JLit("API configuration error. Please contact support.")))

SymbolRequired ==
  Response(400, ErrorBody("SYMBOL_REQUIRED", JLit("Stock symbol is required")))

InvalidSymbolFormat(sym) ==
  Response(400, ErrorBody("INVALID_SYMBOL_FORMAT",
     JFmt(<<"Invalid stock symbol format: ", sym, ". Please use 1-5 uppercase letters.">>)))

\* the query of the GET (lines 81-86)
Params(sym, key) ==
  [function |-> "TIME_SERIES_INTRADAY", symbol |-> sym, interval |-> "5min", apikey |-> key.v]

\* lines 53-86: an early response, or the GET to issue with the normalised symbol
GetStockPreMut(key, rawsym) ==
  IF rawsym = <<>> THEN [call |-> FALSE, symbol |-> rawsym, response |-> SymbolRequired]
  ELSE LET sym == NormalizeSymbol(rawsym)
       IN  IF ~MatchSymbol(sym)
           THEN [call |-> FALSE, symbol |-> sym, response |-> InvalidSymbolFormat(sym)]
           ELSE IF KeyMissing(key)
           THEN [call |-> FALSE, symbol |-> sym, response |-> ApiKeyMissing]
           ELSE [call |-> TRUE, symbol |-> sym, params |-> Params(sym, key)]

GetStockPre(key, rawsym) ==
  IF KeyMissing(key) THEN [call |-> FALSE, symbol |-> rawsym, response |-> ApiKeyMissing]
  ELSE IF rawsym = <<>> THEN [call |-> FALSE, symbol |-> rawsym, response |-> SymbolRequired]
  ELSE LET sym == NormalizeSymbol(rawsym)
       IN  IF ~MatchSymbol(sym)
           THEN [call |-> FALSE, symbol |-> sym, response |-> InvalidSymbolFormat(sym)]
           ELSE [call |-> TRUE, symbol |-> sym, params |-> Params(sym, key)]

\* the needle of line 103
RateLimitText == <<"r","a","t","e"," ","l","i","m","i","t">>

\* data['Information'].lower(): AttributeError unless the value is a string
InformationLower(info) ==
  IF IsStr(info) THEN Ok(StrLower(info.v)) ELSE Raise("AttributeError")

\* lines 102-115: the two answers to an "Information" member
Information(info, low) ==
  IF ~low.ok THEN low
  ELSE IF Contains(RateLimitText, low.v)
  THEN Ok(Response(429, ErrorBodyWith("RATE_LIMIT_EXCEEDED",
         JLit("API rate limit reached. Please try again later or consider upgrading to a premium plan."),
         "details", info)))
  ELSE Ok(Response(400, ErrorBody("API_INFORMATION", JFmt(<<"API Information: ", info.v>>))))

\* lines 153-156: return jsonify(result), unless process_stock_data raised
Jsonify(result) == IF result.ok THEN Ok(Response(200, result.v)) ELSE result

\* lines 101-156 on the decoded JSON object: the response, or the fault raised
ClassifyMut(data, sym) ==
  IF "Information" \in DOMAIN data.v
  THEN Information(data.v["Information"], InformationLower(data.v["Information"]))
  ELSE IF "Note" \in DOMAIN data.v
  THEN Ok(Response(429, ErrorBodyWith("RATE_LIMIT_NOTE",
             JLit("API rate limit reached. Please try again later."),
             "details", data.v["Note"])))
  ELSE IF "Error Message" \in DOMAIN data.v
  THEN Ok(Response(404, ErrorBodyWith("SYMBOL_NOT_FOUND",
             JFmt(<<"Stock symbol \"", sym, "\" not found. Please check the symbol and try again.">>),
             "details", data.v["Error Message"])))
  ELSE IF "Meta Data" \notin DOMAIN data.v
  THEN Ok(Response(500, ErrorBody("INVALID_API_RESPONSE",
             JLit("Invalid API response format. Please try again."))))
  ELSE IF "Time Series (5min)" \notin DOMAIN data.v
  THEN Ok(Response(404, ErrorBodyWith("NO_TIME_SERIES_DATA",
             JLit("No time series data available for this symbol."),
             "available_keys", JList(DOMAIN data.v))))
  ELSE Jsonify(process_stock_data(data, sym))

Classify(data, sym) ==
  IF "Information" \in DOMAIN data.v
  THEN Information(data.v["Information"], InformationLower(data.v["Information"]))
  ELSE IF "Error Message" \in DOMAIN data.v
  THEN Ok(Response(404, ErrorBodyWith("SYMBOL_NOT_FOUND",
             JFmt(<<"Stock symbol \"", sym, "\" not found. Please check the symbol and try again.">>),
             "details", data.v["Error Message"])))
  ELSE IF "Note" \in DOMAIN data.v
  THEN Ok(Response(429, ErrorBodyWith("RATE_LIMIT_NOTE",
             JLit("API rate limit reached. Please try again later."),
             "details", data.v["Note"])))
  ELSE IF "Meta Data" \notin DOMAIN data.v
  THEN Ok(Response(500, ErrorBody("INVALID_API_RESPONSE",
             JLit("Invalid API response format. Please try again."))))
  ELSE IF "Time Series (5min)" \notin DOMAIN data.v
  THEN Ok(Response(404, ErrorBodyWith("NO_TIME_SERIES_DATA",
             JLit("No time series data available for this symbol."),
             "available_keys", JList(DOMAIN data.v))))
  ELSE Jsonify(process_stock_data(data, sym))

\* response.raise_for_status(): HTTPError for a 4xx or 5xx status
RaisesForStatus(status) == 400 <= status /\ status < 600

\* lines 88-156: the body of the try block, given what the GET did
TryBody(out, sym) ==
  IF out.kind = "raise" THEN Raise(out.exc)
  ELSE IF RaisesForStatus(out.status) THEN Raise("HTTPError")
  ELSE IF ~out.body.json THEN Raise(out.body.exc)
  ELSE IF ~IsObj(out.body.value) THEN Raise("AttributeError")
  ELSE Classify(out.body.value, sym)

\* the classes of requests.exceptions and of the builtins the handler meets
Bases(e) ==
  CASE e = "ReadTimeout"       -> {"Timeout"}
    [] e = "ConnectTimeout"    -> {"ConnectionError", "Timeout"}
    [] e = "Timeout"           -> {"RequestException"}
    [] e = "SSLError"          -> {"ConnectionError"}
    [] e = "ConnectionError"   -> {"RequestException"}
    [] e = "HTTPError"         -> {"RequestException"}
    [] e = "TooManyRedirects"  -> {"RequestException"}
    [] e = "JSONDecodeError"   -> {"InvalidJSONError", "ValueError"}
    [] e = "InvalidJSONError"  -> {"RequestException"}
    [] e = "RequestException"  -> {"Exception"}
    [] e \in {"ValueError", "KeyError", "TypeError", "AttributeError"} -> {"Exception"}
    [] OTHER                   -> {}

RECURSIVE IsInstance(_, _)
IsInstance(e, cls) == e = cls \/ \E b \in Bases(e) : IsInstance(b, cls)

\* lines 158-184: the except clauses, tried in order
ExceptClauses(exc) ==
  IF IsInstance(exc, "Timeout")
  THEN Response(408, ErrorBody("REQUEST_TIMEOUT", JLit("Request timeout. Please try again.")))
  ELSE IF IsInstance(exc, "ConnectionError")
  THEN Response(503, ErrorBody("CONNECTION_ERROR",
          JLit("Network connection error. Please check your internet connection.")))
  ELSE IF IsInstance(exc, "RequestException")
  THEN Response(500, ErrorBody("REQUEST_ERROR", JFmt(<<"Network error: ", exc>>)))
  ELSE Response(500, ErrorBody("INTERNAL_ERROR",
          JLit("An unexpected error occurred. Please try again.")))

\* lines 79-184: the try statement as a whole
Handled(r) == IF r.ok THEN r.v ELSE ExceptClauses(r.exc)

GetStockPost(out, sym) == Handled(TryBody(out, sym))

\* No except clause re-issues the GET: Config.MAX_RETRIES is never read by app.py
MAX_RETRIES == 3

MayRetryMut(calls, out) == out.kind = "raise" /\ calls < MAX_RETRIES

MayRetry(calls, out) == FALSE

(***************************************************************************)
(* The request state machine                                               *)
(***************************************************************************)
\* `symbol` is a local name of one invocation of get_stock (line 70)
BindShared(f, r, v) == [q \in DOMAIN f |-> v]

BindLocal(f, r, v) == [f EXCEPT ![r] = v]

\* get_stock from its entry to the blocking requests.get, or to an early return
Entered(r, pre) ==
  /\ symbol' = BindLocal(symbol, r, pre.symbol)
  /\ IF pre.call
     THEN /\ sent' = [sent EXCEPT ![r] = Append(sent[r], pre.params)]
          /\ pc' = [pc EXCEPT ![r] = "awaiting"]
          /\ UNCHANGED replies
     ELSE /\ replies' = [replies EXCEPT ![r] = Append(replies[r], pre.response)]
          /\ pc' = [pc EXCEPT ![r] = "done"]
          /\ UNCHANGED sent

StartRequest(r) ==
  /\ pc[r] = "start"
  /\ Entered(r, GetStockPre(env_key, raw[r]))
  /\ UNCHANGED <<reqs, env_key, raw, upstream>>

\* requests.get has returned or raised: the rest of the try statement
ReceiveUpstream(r) ==
  /\ pc[r] = "awaiting"
  /\ IF MayRetry(Len(sent[r]), upstream[r])
     THEN /\ sent' = [sent EXCEPT ![r] = Append(sent[r], Params(symbol[r], env_key))]
          /\ UNCHANGED <<pc, replies>>
     ELSE /\ replies' = [replies EXCEPT ![r] =
                           Append(replies[r], GetStockPost(upstream[r], symbol[r]))]
          /\ pc' = [pc EXCEPT ![r] = "done"]
          /\ UNCHANGED sent
  /\ UNCHANGED <<reqs, env_key, raw, upstream, symbol>>

Start == \E r \in reqs : StartRequest(r)

Receive == \E r \in reqs : ReceiveUpstream(r)

Next == Start \/ Receive

(***************************************************************************)
(* Inputs: the environment, the path parameter, what the upstream does     *)
(***************************************************************************)
KeyUnset == [set |-> FALSE, v |-> <<>>]
KeyEmpty == [set |-> TRUE,  v |-> <<>>]
KeyDemo  == [set |-> TRUE,  v |-> <<"d","e","m","o">>]

Keys == {KeyUnset, KeyEmpty, KeyDemo}

\* all texts over an alphabet, up to a length
RECURSIVE TextsUpTo(_, _)
TextsUpTo(alphabet, n) ==
  IF n = 0 THEN {<<>>}
  ELSE LET shorter == TextsUpTo(alphabet, n - 1)
       IN  shorter \cup {Append(t, c) : t \in shorter, c \in alphabet}

T_AAPL == <<"A","A","P","L">>
T_0930 == <<"2","0","2","4","-","0","1","-","0","2"," ","0","9",":","3","0",":","0","0">>
T_0935 == <<"2","0","2","4","-","0","1","-","0","2"," ","0","9",":","3","5",":","0","0">>
T_0940 == <<"2","0","2","4","-","1","-","2"," ","9",":","4","0",":","0","0">>
T_SAT  == <<"2","0","2","4","-","0","1","-","0","6"," ","1","0",":","0","0",":","0","0">>
T_BAD  == <<"2","0","2","4","-","0","1","-","0","2","T","0","9",":","4","5">>

Observation(o, h, l, c, v) ==
  JObj(("1. open" :> JStr(o)) @@ ("2. high" :> JStr(h)) @@ ("3. low" :> JStr(l))
       @@ ("4. close" :> JStr(c)) @@ ("5. volume" :> JStr(v)))

ObsA == Observation(<<"1","0","0",".","0","0">>, <<"1","0","6",".","0","0">>, <<"9","9",".","5","0">>, <<"1","0","5",".","0","0">>, <<"1","2","0","0">>)
ObsB == Observation(<<"0">>, <<"1",".","5","0">>, <<"0">>, <<"1",".","5","0">>, <<"0">>)
ObsC == Observation(<<"1","8","9",".","9","5","0","0">>, <<"1","9","0",".","1","0","0","0">>, <<"1","8","9",".","9","0","0","0">>, <<"1","9","0",".","0","3","0","0">>, <<"4","8","2","1","3">>)
ObsBadOpen   == Observation(<<"n","/","a">>, <<"1","0","6",".","0","0">>, <<"9","9",".","5","0">>, <<"1","0","5",".","0","0">>, <<"1","2","0","0">>)
ObsBadVolume == Observation(<<"1","0","0",".","0","0">>, <<"1","0","6",".","0","0">>, <<"9","9",".","5","0">>, <<"1","0","5",".","0","0">>, <<"1",".","5">>)
ObsNoClose ==
  JObj(("1. open" :> JStr(<<"1","0","0",".","0","0">>)) @@ ("2. high" :> JStr(<<"1","0","6",".","0","0">>))
       @@ ("3. low" :> JStr(<<"9","9",".","5","0">>)) @@ ("5. volume" :> JStr(<<"1","2","0","0">>)))

MetaFull ==
  JObj(("1. Information" :> JStr(<<"I","n","t","r","a","d","a","y">>)) @@ ("2. Symbol" :> JStr(T_AAPL))
       @@ ("3. Last Refreshed" :> JStr(T_0935)))
MetaNoSymbol ==
  JObj(("1. Information" :> JStr(<<"I","n","t","r","a","d","a","y">>)) @@ ("3. Last Refreshed" :> JStr(T_0935)))
MetaNoRefreshed ==
  JObj(("1. Information" :> JStr(<<"I","n","t","r","a","d","a","y">>)) @@ ("2. Symbol" :> JStr(T_AAPL)))

Absent == [t |-> "absent", v |-> <<>>]

\* an optional member of a JSON object
Member(key, choice) == IF choice.t = "absent" THEN EmptyMap ELSE (key :> choice)

Body(info, err, note, meta, series) ==
  JObj(Member("Information", info) @@ Member("Error Message", err) @@ Member("Note", note)
       @@ Member("Meta Data", meta) @@ Member("Time Series (5min)", series))

HttpJson(status, value) ==
  [kind |-> "http", status |-> status, body |-> [json |-> TRUE, value |-> value]]

\* a body that is not JSON: response.json() raises requests' JSONDecodeError
\* (requests 2.27 and later) or the json module's ValueError (earlier releases)
HttpNotJson(status, exc) ==
  [kind |-> "http", status |-> status, body |-> [json |-> FALSE, exc |-> exc]]

Fault(exc) == [kind |-> "raise", exc |-> exc]

GoodSeries == JObj((T_0930 :> ObsC) @@ (T_0935 :> ObsA))

GoodReply == HttpJson(200, Body(Absent, Absent, Absent, MetaFull, GoodSeries))

\* what requests.get itself may raise
TransportFaults ==
  {Fault(e) : e \in {"ReadTimeout", "ConnectTimeout", "ConnectionError", "SSLError",
                     "TooManyRedirects"}}

\* replies that raise_for_status() rejects, and one it lets through
HttpFailures == {HttpJson(404, JObj(EmptyMap)), HttpJson(503, JNull), HttpNotJson(500, "ValueError")}

\* 200 replies whose body is not JSON, or is JSON but not an object
Undecodable == {HttpNotJson(200, "JSONDecodeError"), HttpNotJson(200, "ValueError")}

NonObjects == {HttpJson(200, JNull), HttpJson(200, JList(<<>>))}

InfoChoices ==
  {Absent, JStr(<<"r","a","t","e"," ","l","i","m","i","t">>), JStr(<<"A","P","I"," ","R","a","t","e"," ","L","i","m","i","t"," ","h","i","t">>), JStr(<<"R","A","T","E"," ","L","I","M","I","T">>),
   JStr(<<"p","r","e","m","i","u","m"," ","o","n","l","y">>), JStr(<<"r","a","t","e","l","i","m","i","t">>), JNull, JList(<<>>)}

\* every combination of the five members the classification looks at
HeaderBodies ==
  {HttpJson(200, Body(i, e, n, m, ts)) :
     i \in InfoChoices, e \in {Absent, JStr(<<"I","n","v","a","l","i","d"," ","A","P","I"," ","c","a","l","l">>)},
     n \in {Absent, JStr(<<"T","h","a","n","k"," ","y","o","u">>)}, m \in {Absent, MetaFull},
     ts \in {Absent, GoodSeries}}

MaxEntries == 2

SeriesKeys == {T_0930, T_0935, T_0940, T_BAD}

Observations == {ObsA, ObsB, ObsBadOpen, ObsBadVolume, ObsNoClose}

\* every time series of at most MaxEntries entries, and two that are no object
SeriesChoices ==
  {JObj(f) : f \in UNION {[K -> Observations] :
                            K \in {S \in SUBSET SeriesKeys : Cardinality(S) <= MaxEntries}}}
    \cup {JNull, JList(<<>>)}

MetaChoices == {MetaFull, MetaNoSymbol, MetaNoRefreshed, JNull}

\* bodies that pass the classification and reach process_stock_data
ExtractionBodies ==
  {HttpJson(200, Body(Absent, Absent, Absent, m, ts)) : m \in MetaChoices, ts \in SeriesChoices}

Outcomes ==
  TransportFaults \cup HttpFailures \cup Undecodable \cup NonObjects
    \cup HeaderBodies \cup ExtractionBodies

SmallSymbols == {<<"A","A","P","L">>, <<"z","z","z","z">>, <<>>, <<" ","i","b","m","\n">>, <<"G","O","O","G","L","E">>, <<"a","1">>}

\* the state of every request at its entry to get_stock
Entry(ids, key, symbols, outcomes) ==
  /\ reqs = ids
  /\ env_key = key
  /\ raw = symbols
  /\ upstream = outcomes
  /\ pc = [r \in ids |-> "start"]
  /\ symbol = symbols
  /\ sent = [r \in ids |-> <<>>]
  /\ replies = [r \in ids |-> <<>>]

\* one request, any key, a few symbols, every upstream outcome
Init ==
  \E key \in Keys, s \in SmallSymbols, out \in Outcomes :
    Entry({1}, key, [r \in {1} |-> s], [r \in {1} |-> out])

Spec == Init /\ [][Next]_vars

(***************************************************************************)
(* Symbol validation on every short text                                   *)
(***************************************************************************)
MaxRawLen == 4

SymbolAlphabet == {"A", "b", "1", " ", "\n", "sz"}

RawSymbols == TextsUpTo(SymbolAlphabet, MaxRawLen) \cup {<<" ","a","a","p","l","\n">>, <<"G","O","O","G","L","E">>, <<"z","z","z","z">>}

InitSymbol ==
  \E key \in Keys, s \in RawSymbols, out \in {GoodReply, Fault("ReadTimeout")} :
    Entry({1}, key, [r \in {1} |-> s], [r \in {1} |-> out])

SpecSymbol == InitSymbol /\ [][Next]_vars

(***************************************************************************)
(* Price metrics on a grid of prices, in thousandths                       *)
(***************************************************************************)
MaxPrice == 25

Prices == ((0 - MaxPrice)..MaxPrice) \cup {100000, 105000}

\* a natural number as text
RECURSIVE NatText(_)
NatText(n) == IF n < 10 THEN <<Digits[n + 1]>> ELSE NatText(n \div 10) \o <<Digits[(n % 10) + 1]>>

Abs(n) == IF n < 0 THEN 0 - n ELSE n

\* a price in thousandths as the upstream writes it: -0.010, 100.000
PriceText(n) ==
  (IF n < 0 THEN <<"-">> ELSE <<>>) \o NatText(Abs(n) \div 1000) \o <<".">> \o Pad(Abs(n) % 1000, 3)

PricedReply(o, c) ==
  HttpJson(200, Body(Absent, Absent, Absent, MetaFull,
                     JObj(T_0935 :> Observation(PriceText(o), <<"1","0","6",".","0","0">>, <<"9","9",".","5","0">>,
                                                PriceText(c), <<"1","2","0","0">>))))

InitArith ==
  \E o \in Prices, c \in Prices :
    Entry({1}, KeyDemo, [r \in {1} |-> T_AAPL], [r \in {1} |-> PricedReply(o, c)])

SpecArith == InitArith /\ [][Next]_vars

(***************************************************************************)
(* Market status over two weeks of timestamps, the change of clocks within *)
(***************************************************************************)
ClockDays == 14

ClockMinutes == {0, 29, 30, 59}

\* Eastern wall clock of day d (0 is Monday 2024-03-04), as the upstream writes it
StampText(d, h, m) ==
  <<"2","0","2","4","-","0","3","-">> \o Pad(4 + d, 2) \o <<" ">> \o Pad(h, 2) \o <<":">> \o Pad(m, 2) \o <<":","0","0">>

StampedReply(d, h, m) ==
  HttpJson(200, Body(Absent, Absent, Absent, MetaFull, JObj(StampText(d, h, m) :> ObsA)))

InitClock ==
  \E d \in 0..(ClockDays - 1), h \in 0..23, m \in ClockMinutes :
    Entry({1}, KeyDemo, [r \in {1} |-> T_AAPL], [r \in {1} |-> StampedReply(d, h, m)])

SpecClock == InitClock /\ [][Next]_vars

(***************************************************************************)
(* Concurrent requests                                                     *)
(***************************************************************************)
NReq == 2

ConcSymbols == {<<"a","a","p","l">>, <<"I","B","M">>, <<"a","1">>}

ConcOutcomes ==
  {GoodReply, Fault("ReadTimeout"),
   HttpJson(200, Body(Absent, JStr(<<"I","n","v","a","l","i","d"," ","A","P","I"," ","c","a","l","l">>), Absent, Absent, Absent))}

InitConc ==
  \E key \in {KeyUnset, KeyDemo}, ss \in [1..NReq -> ConcSymbols],
     outs \in [1..NReq -> ConcOutcomes] :
    Entry(1..NReq, key, ss, outs)

SpecConc == InitConc /\ [][Next]_vars

(***************************************************************************)
(* Properties                                                              *)
(***************************************************************************)
Done(r) == pc[r] = "done" /\ Len(replies[r]) = 1

TheReply(r) == replies[r][1]

\* the reply of r is an error object with this code and status
Answered(r, code, status) ==
  /\ Done(r)
  /\ TheReply(r).status = status
  /\ "code" \in DOMAIN TheReply(r).body
  /\ TheReply(r).body["code"] = code

\* the request got a 200 reply whose body decoded to a JSON object
GotObject(r) ==
  /\ Len(sent[r]) > 0
  /\ upstream[r].kind = "http"
  /\ upstream[r].status = 200
  /\ upstream[r].body.json
  /\ upstream[r].body.value.t = "obj"

Data(r) == upstream[r].body.value.v

\* text contains "rate limit" in any mix of cases
SaysRateLimit(j) ==
  /\ j.t = "str"
  /\ \E i \in 1..Len(j.v) :
       /\ i + 9 <= Len(j.v)
       /\ \A k \in 0..9 : LowerChar(j.v[i + k]) = <<"r","a","t","e"," ","l","i","m","i","t">>[k + 1]

ClassificationCodes ==
  {"RATE_LIMIT_EXCEEDED", "API_INFORMATION", "SYMBOL_NOT_FOUND", "RATE_LIMIT_NOTE",
   "INVALID_API_RESPONSE", "NO_TIME_SERIES_DATA"}

\* a reply that extraction produced: none of the six classified answers
Extracted(r) ==
  /\ Done(r)
  /\ \/ TheReply(r).status = 200
     \/ TheReply(r).body["code"] \notin ClassificationCodes

\* the decision table of the classification, first match first
FirstMatch(r) ==
  IF "Information" \in DOMAIN Data(r)
  THEN IF SaysRateLimit(Data(r)["Information"])
       THEN Answered(r, "RATE_LIMIT_EXCEEDED", 429)
       ELSE Answered(r, "API_INFORMATION", 400)
  ELSE IF "Error Message" \in DOMAIN Data(r) THEN Answered(r, "SYMBOL_NOT_FOUND", 404)
  ELSE IF "Note" \in DOMAIN Data(r) THEN Answered(r, "RATE_LIMIT_NOTE", 429)
  ELSE IF "Meta Data" \notin DOMAIN Data(r) THEN Answered(r, "INVALID_API_RESPONSE", 500)
  ELSE IF "Time Series (5min)" \notin DOMAIN Data(r) THEN Answered(r, "NO_TIME_SERIES_DATA", 404)
  ELSE Extracted(r)

TextInformation(r) ==
  "Information" \in DOMAIN Data(r) => Data(r)["Information"].t = "str"

\* C1 as stated: every decoded JSON object is answered by the first matching
\* rule of the decision table, whatever the value of its "Information" member.
C1_EveryObject ==
  \A r \in reqs : (pc[r] = "done" /\ GotObject(r)) => FirstMatch(r)

\* C1, amended: every decoded JSON object whose "Information" member, if present,
\* is text is answered by the first matching rule of the decision table; an
\* "Information" member that is not text is answered INTERNAL_ERROR / 500.
C1_FirstMatchWins ==
  \A r \in reqs :
    (pc[r] = "done" /\ GotObject(r)) =>
      IF TextInformation(r) THEN FirstMatch(r) ELSE Answered(r, "INTERNAL_ERROR", 500)

\* "Error Message" and "Note" both present, no "Information": the earlier rule decided
C1_Witness ==
  \E r \in reqs :
    /\ pc[r] = "done" /\ GotObject(r)
    /\ {"Error Message", "Note", "Meta Data"} \subseteq DOMAIN Data(r)
    /\ "Information" \notin DOMAIN Data(r)
    /\ Answered(r, "SYMBOL_NOT_FOUND", 404)

\* C3: with the API key absent, every request, whatever its symbol, is answered
\* API_KEY_MISSING / 500 and never issues the upstream GET.
C3_KeyMissing ==
  ~env_key.set =>
    \A r \in reqs : /\ Len(sent[r]) = 0
                    /\ pc[r] # "awaiting"
                    /\ pc[r] = "done" => Answered(r, "API_KEY_MISSING", 500)

\* key absent, a symbol that would have been rejected, answered API_KEY_MISSING
C3_Witness ==
  \E r \in reqs : /\ ~env_key.set
                  /\ raw[r] = <<"a","1">>
                  /\ Answered(r, "API_KEY_MISSING", 500)

\* one to five capital letters
IsSymbol(t) == Len(t) \in 1..5 /\ \A i \in DOMAIN t : t[i] \in Range(UpperLetters)

\* C4: a request issues the upstream GET at most once, only with a validated
\* symbol; a request answered with a validation error issued none, and no
\* answered request, whatever the error, has issued a second one.
C4_SingleCall ==
  \A r \in reqs :
    /\ Len(sent[r]) <= 1
    /\ Len(sent[r]) = 1 => IsSymbol(sent[r][1].symbol)
    /\ (Answered(r, "SYMBOL_REQUIRED", 400) \/ Answered(r, "INVALID_SYMBOL_FORMAT", 400))
         => Len(sent[r]) = 0
    /\ pc[r] = "done" => Len(replies[r]) = 1

\* a timeout was answered, after exactly one GET
C4_Witness ==
  \E r \in reqs : Answered(r, "REQUEST_TIMEOUT", 408) /\ Len(sent[r]) = 1

GenericMessage == JLit("An unexpected error occurred. Please try again.")

\* the reply of r is INTERNAL_ERROR / 500 with the fixed generic text
InternalError(r) ==
  Answered(r, "INTERNAL_ERROR", 500) /\ TheReply(r).body["error"] = GenericMessage

\* C5 as stated: a timeout is answered REQUEST_TIMEOUT / 408, a connection
\* failure CONNECTION_ERROR / 503, any other transport fault (a 4xx or 5xx
\* status included) REQUEST_ERROR / 500, and a fault raised while the body is
\* parsed INTERNAL_ERROR / 500 with the fixed generic text.
C5_FaultMapping ==
  \A r \in reqs :
    (pc[r] = "done" /\ Len(sent[r]) > 0) =>
      /\ (upstream[r].kind = "raise" /\ upstream[r].exc \in {"ReadTimeout", "ConnectTimeout"})
           => Answered(r, "REQUEST_TIMEOUT", 408)
      /\ (upstream[r].kind = "raise" /\ upstream[r].exc \in {"ConnectionError", "SSLError"})
           => Answered(r, "CONNECTION_ERROR", 503)
      /\ (upstream[r].kind = "raise" /\ upstream[r].exc = "TooManyRedirects")
           => Answered(r, "REQUEST_ERROR", 500)
      /\ (upstream[r].kind = "http" /\ upstream[r].status # 200)
           => Answered(r, "REQUEST_ERROR", 500)
      /\ (upstream[r].kind = "http" /\ upstream[r].status = 200 /\ ~upstream[r].body.json)
           => InternalError(r)
      /\ (upstream[r].kind = "http" /\ upstream[r].status = 200 /\ upstream[r].body.json
            /\ upstream[r].body.value.t # "obj")
           => InternalError(r)

QuoteFields ==
  {"symbol", "company_name", "last_refreshed", "latest_time_eastern", "latest_time_pacific",
   "open", "high", "low", "close", "volume", "price_change", "price_change_percent",
   "market_status", "data_quality", "source"}

Taxonomy ==
  {"API_KEY_MISSING", "SYMBOL_REQUIRED", "INVALID_SYMBOL_FORMAT", "RATE_LIMIT_EXCEEDED",
   "API_INFORMATION", "SYMBOL_NOT_FOUND", "RATE_LIMIT_NOTE", "INVALID_API_RESPONSE",
   "NO_TIME_SERIES_DATA", "REQUEST_TIMEOUT", "CONNECTION_ERROR", "REQUEST_ERROR",
   "INTERNAL_ERROR"}

ObservationFields == {"1. open", "2. high", "3. low", "4. close", "5. volume"}

\* the greatest key of a series in lexicographic order, stated on positions:
\* j precedes k when they first differ at a position where j ends or is smaller
Precedes(j, k) ==
  \E i \in 1..Len(k) :
    /\ \A n \in 1..(i - 1) : n <= Len(j) /\ j[n] = k[n]
    /\ i > Len(j) \/ Ord(j[i]) < Ord(k[i])

Greatest(k, keys) == k \in keys /\ \A j \in keys \ {k} : Precedes(j, k)

\* the upstream body of r is well formed where extraction reads it
SourceComplete(r) ==
  /\ GotObject(r)
  /\ {"Meta Data", "Time Series (5min)"} \subseteq DOMAIN Data(r)
  /\ Data(r)["Meta Data"].t = "obj"
  /\ {"2. Symbol", "3. Last Refreshed"} \subseteq DOMAIN Data(r)["Meta Data"].v
  /\ Data(r)["Time Series (5min)"].t = "obj"
  /\ DOMAIN Data(r)["Time Series (5min)"].v # {}
  /\ \E k \in DOMAIN Data(r)["Time Series (5min)"].v :
       /\ Greatest(k, DOMAIN Data(r)["Time Series (5min)"].v)
       /\ Data(r)["Time Series (5min)"].v[k].t = "obj"
       /\ ObservationFields \subseteq DOMAIN Data(r)["Time Series (5min)"].v[k].v

\* C6: a request gets at most one reply, exactly one once it has ended; the reply
\* is a QuoteResult with every field (status 200) or an error object with
\* "error" and a "code" of the taxonomy; a 200 is never given for an empty
\* series, a missing observation field or a missing metadata field.
C6_NoPartialResult ==
  \A r \in reqs :
    /\ Len(replies[r]) <= 1
    /\ pc[r] = "done" <=> Len(replies[r]) = 1
    /\ Len(replies[r]) = 1 =>
         IF TheReply(r).status = 200
         THEN DOMAIN TheReply(r).body = QuoteFields /\ SourceComplete(r)
         ELSE /\ {"error", "code"} \subseteq DOMAIN TheReply(r).body
              /\ TheReply(r).body["code"] \in Taxonomy

\* metadata and series present, the metadata lacks "2. Symbol": an error object
C6_Witness ==
  \E r \in reqs :
    /\ GotObject(r)
    /\ {"Meta Data", "Time Series (5min)"} \subseteq DOMAIN Data(r)
    /\ Data(r)["Meta Data"].t = "obj"
    /\ "2. Symbol" \notin DOMAIN Data(r)["Meta Data"].v
    /\ Data(r)["Time Series (5min)"] = JObj(T_0935 :> ObsA)
    /\ InternalError(r)

\* the QuoteResult field that carries an observation field
ResultField(f) ==
  CASE f = "1. open" -> "open" [] f = "2. high" -> "high" [] f = "3. low" -> "low"
    [] f = "4. close" -> "close" [] f = "5. volume" -> "volume"

\* C9: the QuoteResult is built from the entry whose key is the greatest in
\* lexicographic order: latest_time_eastern is that key and open, high, low,
\* close and volume are that entry's values, unchanged.
C9_LatestEntry ==
  \A r \in reqs :
    (Done(r) /\ TheReply(r).status = 200) =>
      /\ TheReply(r).body["latest_time_eastern"].t = "str"
      /\ Greatest(TheReply(r).body["latest_time_eastern"].v,
                  DOMAIN Data(r)["Time Series (5min)"].v)
      /\ \A f \in ObservationFields :
           TheReply(r).body[ResultField(f)] =
             Data(r)["Time Series (5min)"].v[TheReply(r).body["latest_time_eastern"].v].v[f]

\* 09:30 and 09:35 are the keys, with different entries: 09:35 is selected
C9_Witness ==
  \E r \in reqs :
    /\ Done(r) /\ TheReply(r).status = 200
    /\ DOMAIN Data(r)["Time Series (5min)"].v = {T_0930, T_0935}
    /\ Data(r)["Time Series (5min)"].v[T_0930] # Data(r)["Time Series (5min)"].v[T_0935]
    /\ TheReply(r).body["latest_time_eastern"] = JStr(T_0935)
    /\ TheReply(r).body["open"] = Data(r)["Time Series (5min)"].v[T_0935].v["1. open"]

\* the claim's normal form of a raw symbol: trimmed, then upper-cased
Normal(t) == StrUpper(StrStrip(t))

\* the display name of a symbol: the table's, or the symbol itself
NameOf(n) == IF n \in DOMAIN company_names THEN JLit(company_names[n]) ELSE JStr(n)

\* the answer C2 gives for the raw symbol of r
ValidatedAsClaimed(r) ==
  IF ~IsSymbol(Normal(raw[r]))
  THEN /\ Len(sent[r]) = 0
       /\ pc[r] = "done"
       /\ IF raw[r] = <<>> THEN Answered(r, "SYMBOL_REQUIRED", 400)
                           ELSE Answered(r, "INVALID_SYMBOL_FORMAT", 400)
  ELSE /\ Len(sent[r]) = 1
       /\ sent[r][1].symbol = Normal(raw[r])
       /\ (Done(r) /\ TheReply(r).status = 200)
            => TheReply(r).body["company_name"] = NameOf(Normal(raw[r]))
       /\ Done(r) => ~Answered(r, "SYMBOL_REQUIRED", 400)
       /\ Done(r) => ~Answered(r, "INVALID_SYMBOL_FORMAT", 400)

\* C2 as stated: every raw symbol is rejected with INVALID_SYMBOL_FORMAT (or
\* SYMBOL_REQUIRED when empty), status 400, unless its normal form is one to
\* five capital letters, and is otherwise accepted and used in that form.
C2_EverySymbol ==
  \A r \in reqs : pc[r] # "start" => ValidatedAsClaimed(r)

\* C2, amended: the same whenever the API key is present.
C2_WithKey ==
  \A r \in reqs :
    (pc[r] # "start" /\ env_key.set /\ env_key.v # <<>>) => ValidatedAsClaimed(r)

\* " aapl\n" was accepted as AAPL, sent upstream as AAPL and named Apple Inc.
C2_Witness ==
  \E r \in reqs :
    /\ raw[r] = <<" ","a","a","p","l","\n">>
    /\ Done(r) /\ TheReply(r).status = 200
    /\ sent[r][1].symbol = T_AAPL
    /\ TheReply(r).body["company_name"] = JLit("Apple Inc.")

\* h hundredths is a nearest hundredth of a / b
Nearest(h, a, b) == 2 * Abs(100 * a - h * b) <= Abs(b)

\* C7 as stated: price_change is close - open and price_change_percent is
\* 100 * price_change / open, or 0 if open = 0 (both to two decimals), and no
\* value of open makes the request fail.
C7_Metrics ==
  \A r \in reqs : \A o \in Prices, c \in Prices :
    (pc[r] = "done" /\ upstream[r] = PricedReply(o, c)) =>
      /\ Done(r) /\ TheReply(r).status = 200
      /\ Nearest(TheReply(r).body["price_change"].v, c - o, 1000)
      /\ IF o = 0 THEN TheReply(r).body["price_change_percent"].v = 0
                  ELSE Nearest(TheReply(r).body["price_change_percent"].v, 100 * (c - o), o)

\* what the handler does: the percentage is 0 whenever open is not positive
C7_PositiveOpen ==
  \A r \in reqs : \A o \in Prices, c \in Prices :
    (pc[r] = "done" /\ upstream[r] = PricedReply(o, c)) =>
      /\ Done(r) /\ TheReply(r).status = 200
      /\ Nearest(TheReply(r).body["price_change"].v, c - o, 1000)
      /\ IF o <= 0 THEN TheReply(r).body["price_change_percent"].v = 0
                   ELSE Nearest(TheReply(r).body["price_change_percent"].v, 100 * (c - o), o)

\* the Pacific wall clock a QuoteResult reports, read back from its text
ReportedPacific(r) == StrpTime(SubSeq(TheReply(r).body["latest_time_pacific"].v, 1, 19)).v

ReportedWeekday(r) ==
  WeekdayOfDays(DaysFromCivil(ReportedPacific(r).year, ReportedPacific(r).month,
                              ReportedPacific(r).day))

Alone(key, rawsym, out) ==
  IF GetStockPre(key, rawsym).call
  THEN GetStockPost(out, GetStockPre(key, rawsym).symbol)
  ELSE GetStockPre(key, rawsym).response

\* C10: however the steps of concurrent requests interleave, each request's
\* reply is the one it would get alone from its own symbol, the API key and
\* the outcome of its own upstream call, and its GET carries its own symbol.
C10_Independent ==
  \A r \in reqs :
    /\ Len(sent[r]) > 0 => sent[r][1].symbol = Normal(raw[r])
    /\ pc[r] = "done" => (Done(r) /\ TheReply(r) = Alone(env_key, raw[r], upstream[r]))

\* two requests for different symbols, both answered 200, each with its own name
C10_Witness ==
  \E r \in reqs, q \in reqs :
    /\ Done(r) /\ Done(q)
    /\ TheReply(r).status = 200 /\ TheReply(q).status = 200
    /\ TheReply(r).body["company_name"] = JLit("Apple Inc.")
    /\ TheReply(q).body["company_name"] = JLit("International Business Machines Corporation")

====
